---- MODULE Spec2Model ----
(***************************************************************************)
(* A model of PythonOPMExtractor.py: the OPMExtractor engine (load_input,  *)
(* extract_package_files, extract_package_sopm) and the argument handling  *)
(* of the Program wrapper.                                                 *)
(*                                                                         *)
(* Python values are modelled as follows.                                  *)
(*   - An optional value is a sequence of length at most one: None is <<>> *)
(*     and a present value x is <<x>>.                                     *)
(*   - An ET.Element is a record [tag, attrib, text, kids]; attrib is a    *)
(*     function from attribute names to strings (a dict), text is an       *)
(*     optional sequence of characters, kids the ordered children.         *)
(*   - tag.attrib is a mutable dict that saved_package_files holds by      *)
(*     reference: a saved entry is the position [top, idx] of the File     *)
(*     element whose dict it is, and reading or changing the dict reads or *)
(*     changes loaded_package_root at that position.                       *)
(*   - The filesystem under output_path is a set of [path, data, mode].    *)
(*   - What one call did is recorded in outcome: the OPMExtractorError     *)
(*     message caught at the stage boundary, whether handle_exception      *)
(*     printed it, the exception that left the call, and the informational *)
(*     messages of the call.                                               *)
(*   - Not modelled: message_mode (handle_message is called either way),   *)
(*     the directories os.makedirs creates, and the indentation and        *)
(*     serialisation of the written XML (the .sopm file holds the tree).   *)
(***************************************************************************)
EXTENDS Integers, Sequences, FiniteSets, TLC

VARIABLES
    exception_mode,       \* OPMExtractor.exception_mode
    input_doc,            \* the document stored at input_file (NoFile: none)
    loaded_package_root,  \* OPMExtractor.loaded_package_root (None before load)
    saved_package_files,  \* OPMExtractor.saved_package_files (None, or a list of references)
    disk,                 \* files under output_path
    written,              \* entries written by the latest extraction pass, in order
    package_xml_root,     \* the tree the latest extract_package_sopm built (None: not built)
    outcome,              \* what the latest call did
    arguments,            \* Program.arguments (sys.argv)
    prog                  \* Program: position, output, exit status, fields

vars == <<exception_mode, input_doc, loaded_package_root, saved_package_files,
          disk, written, package_xml_root, outcome, arguments, prog>>

engine_vars == <<exception_mode, input_doc, loaded_package_root,
                 saved_package_files, disk, written, package_xml_root, outcome>>

program_vars == <<arguments, prog>>

(***************************************************************************)
(* Bounds of the model.                                                    *)
(***************************************************************************)
MaxFiles == 2    \* File entries under Filelist, at most
MaxTop == 4      \* direct children of the root, at most (tag-order documents)
MaxArgs == 4     \* command-line words after the program name, at most

None == <<>>
Some(x) == <<x>>

Range(s) == {s[i] : i \in 1..Len(s)}

SeqsUpTo(S, n) == UNION {[1..k -> S] : k \in 0..n}

(***************************************************************************)
(* Elements.                                                               *)
(***************************************************************************)
NoAttrib == [a \in {} |-> ""]

Element(tag, attrib, text, kids) ==
    [tag |-> tag, attrib |-> attrib, text |-> text, kids |-> kids]

\* dict.get(key, default=None)
Get(attrib, key) == IF key \in DOMAIN attrib THEN Some(attrib[key]) ELSE None

\* del dict[key] (the caller has checked that key is present)
DelKey(attrib, key) == [a \in DOMAIN attrib \ {key} |-> attrib[a]]

\* Element.find(tag): the position of the first direct child so tagged, 0 for None
Find(node, tag) ==
    LET hits == {i \in 1..Len(node.kids) : node.kids[i].tag = tag}
    IN  IF hits = {} THEN 0 ELSE CHOOSE i \in hits : \A j \in hits : i <= j

RECURSIVE Iter(_, _)
RECURSIVE IterKids(_, _)
\* Element.iter(tag): the element itself and its descendants so tagged, in document order
Iter(node, tag) ==
    (IF node.tag = tag THEN <<node>> ELSE <<>>) \o IterKids(node.kids, tag)

IterKids(kids, tag) ==
    IF kids = <<>> THEN <<>>
    ELSE Iter(Head(kids), tag) \o IterKids(Tail(kids), tag)

ExceptionMode == {"PRINT_STDERR", "RAISE", "PRINT_AND_RAISE"}

(***************************************************************************)
(* The documents the model loads.                                          *)
(***************************************************************************)
\* base64 of b"x", plain and line-wrapped
Payload == <<"e", "A", "=", "=">>
PayloadWrapped == <<"e", "A", "\n", "=", "=">>

Loc(i) == "Kernel/f" \o ToString(i)

\* A File entry's shape: tag, presence of Location, Permission, Encode, a custom
\* attribute, and the text.
EntryKinds ==
    { [tag |-> "File", loc |-> TRUE, perm |-> Some("644"), enc |-> Some("Base64"), extra |-> FALSE, text |-> Some(Payload)],
      [tag |-> "File", loc |-> TRUE, perm |-> Some("755"), enc |-> Some("Base64"), extra |-> TRUE, text |-> Some(PayloadWrapped)],
      [tag |-> "File", loc |-> TRUE, perm |-> Some(""), enc |-> Some("Base64"), extra |-> FALSE, text |-> Some(Payload)],
      [tag |-> "File", loc |-> TRUE, perm |-> None, enc |-> Some("Base64"), extra |-> FALSE, text |-> Some(Payload)],
      [tag |-> "File", loc |-> TRUE, perm |-> Some("644"), enc |-> Some("Gzip"), extra |-> FALSE, text |-> Some(Payload)],
      [tag |-> "File", loc |-> TRUE, perm |-> Some("644"), enc |-> None, extra |-> FALSE, text |-> Some(Payload)],
      [tag |-> "File", loc |-> TRUE, perm |-> None, enc |-> Some("Gzip"), extra |-> FALSE, text |-> Some(Payload)],
      [tag |-> "File", loc |-> FALSE, perm |-> Some("644"), enc |-> Some("Base64"), extra |-> FALSE, text |-> Some(Payload)],
      [tag |-> "File", loc |-> TRUE, perm |-> Some("644"), enc |-> Some("Base64"), extra |-> FALSE, text |-> None],
      [tag |-> "Dir", loc |-> TRUE, perm |-> Some("644"), enc |-> Some("Base64"), extra |-> FALSE, text |-> Some(Payload)] }

EntryAttrib(k, i) ==
    LET keys == (IF k.loc THEN {"Location"} ELSE {})
                \cup (IF k.perm # None THEN {"Permission"} ELSE {})
                \cup (IF k.enc # None THEN {"Encode"} ELSE {})
                \cup (IF k.extra THEN {"Type"} ELSE {})
    IN  [a \in keys |->
            CASE a = "Location" -> Loc(i)
              [] a = "Permission" -> k.perm[1]
              [] a = "Encode" -> k.enc[1]
              [] OTHER -> "Custom"]

Entries(ks) == [i \in 1..Len(ks) |-> Element(ks[i].tag, EntryAttrib(ks[i], i), ks[i].text, <<>>)]

Plain(tag) == Element(tag, NoAttrib, Some(<<"v">>), <<>>)

Wrap(tag, inner) == Element(tag, NoAttrib, None, <<inner>>)

NameTag == Element("Name", NoAttrib, Some(<<"P", "k", "g">>), <<>>)

Filelist(ks) == Element("Filelist", NoAttrib, None, Entries(ks))

ValidKind == [tag |-> "File", loc |-> TRUE, perm |-> Some("644"), enc |-> Some("Base64"), extra |-> FALSE, text |-> Some(Payload)]

Root(kids) == Element("otrs_package", [a \in {"version"} |-> "1.0"], None, kids)

\* Documents that vary the File entries, under a few shapes of the root.
FileDocs ==
    { Root(kids) : kids \in UNION {
        { <<NameTag, Filelist(ks)>>,
          <<Filelist(ks)>>,
          <<Plain("BuildDate"), Wrap("Description", Filelist(<<ValidKind>>)), NameTag, Filelist(ks)>>,
          <<Wrap("Description", NameTag), Filelist(ks)>> } : ks \in SeqsUpTo(EntryKinds, MaxFiles) } }

\* Documents that vary the root's direct children, with one valid File entry.
TopKinds ==
    { NameTag, Filelist(<<ValidKind>>), Plain("Vendor"), Plain("License"),
      Plain("BuildCommitID"), Plain("BuildDate"), Plain("BuildHost"),
      Wrap("Vendor", Plain("License")) }

TagDocs == { Root(kids) : kids \in SeqsUpTo(TopKinds, MaxTop) }

NoFile == None

\* The constructions the model starts from: every exception policy over the
\* File-entry documents and a missing input file, the constructor's default
\* policy over the tag-order documents.
Constructions ==
    (ExceptionMode \X ({Some(d) : d \in FileDocs} \cup {NoFile}))
    \cup ({"PRINT_STDERR"} \X {Some(d) : d \in TagDocs})

(***************************************************************************)
(* Handlers.                                                               *)
(***************************************************************************)
\* handle_exception: whether the exception is printed to stderr, and whether it
\* is raised to the caller.
handle_exception(mode) ==
    [printed |-> mode \in {"PRINT_STDERR", "PRINT_AND_RAISE"},
     raised |-> mode \in {"RAISE", "PRINT_AND_RAISE"}]

\* What a call did: op, the OPMExtractorError caught at the stage boundary
\* (error, "" for none), handle_exception's print, the exception leaving the
\* call (raised, "" for a normal return) and the "Saved file '<sopm>'!" message.
Outcome(op, error, mode, crash, saved_msg) ==
    [op |-> op,
     error |-> error,
     printed |-> error # "" /\ handle_exception(mode).printed,
     raised |-> IF crash # "" THEN crash
                ELSE IF error # "" /\ handle_exception(mode).raised
                     THEN "OPMExtractorError" ELSE "",
     saved_msg |-> saved_msg]

NoOutcome == Outcome("none", "", "PRINT_STDERR", "", FALSE)

(***************************************************************************)
(* The filesystem.                                                         *)
(***************************************************************************)
output_path == "out"

\* os.path.join(output_path, name)
Join(name) == output_path \o "/" \o name

Bytes(b) == [bytes |-> b, xml |-> None]

Xml(tree) == [bytes |-> <<>>, xml |-> Some(tree)]

\* _write_binary_file / _write_xml_root, then _set_file_permissions: the file at
\* path is replaced
WriteFile(fs, path, data, mode) ==
    {f \in fs : f.path # path} \cup {[path |-> path, data |-> data, mode |-> mode]}

\* int(text, base=8) on the permission strings of the model's documents
ParseOctal(p) ==
    CASE p = "644" -> 420
      [] p = "755" -> 493
      [] p = "660" -> 432

\* base64.b64decode(text.replace('\n', '')) on the payloads of the model's documents
decode_base64(text) ==
    LET stripped == SelectSeq(text, LAMBDA c : c # "\n")
    IN  CASE stripped = <<"e", "A", "=", "=">> -> <<"x">>
          [] stripped = <<>> -> <<>>

(***************************************************************************)
(* extract_package_files.                                                  *)
(***************************************************************************)
Show(opt) == IF opt = None THEN "None" ELSE opt[1]

\* The checks of _extract_from_file_tag: the message of the OPMExtractorError
\* it raises, "" when it raises none.
FileTagErrorNoEncodeCheck(file_tag) ==
    IF file_tag.tag # "File"
    THEN "Tag is supposed to be named 'File'!"
    ELSE IF Get(file_tag.attrib, "Permission") = None
            \/ Get(file_tag.attrib, "Location") = None
    THEN "Tag 'File' is supposed to have 'Permission' and 'Location' attributes!"
    ELSE ""

FileTagError(file_tag) ==
    IF file_tag.tag # "File"
    THEN "Tag is supposed to be named 'File'!"
    ELSE IF Get(file_tag.attrib, "Permission") = None
            \/ Get(file_tag.attrib, "Location") = None
    THEN "Tag 'File' is supposed to have 'Permission' and 'Location' attributes!"
    ELSE IF Get(file_tag.attrib, "Encode") # Some("Base64")
    THEN "Tag 'File' is has unsupported '" \o Show(Get(file_tag.attrib, "Encode")) \o "' encoding!"
    ELSE IF Get(file_tag.attrib, "Location") = None
    THEN "Tag 'File' has no 'Location' attribute!"
    ELSE ""

\* file_tag.get('Permission', default=None) or '660'
PermissionOrDefault(file_tag) ==
    LET p == Get(file_tag.attrib, "Permission")
    IN  IF p = None \/ p = Some("") THEN "660" ELSE p[1]

\* _extract_from_file_tag on the filesystem fs: the error raised, the other
\* exception raised (text None has no replace), and the filesystem after.
extract_from_file_tag(file_tag, fs) ==
    LET error == FileTagError(file_tag)
    IN  IF error # ""
        THEN [error |-> error, crash |-> "", disk |-> fs]
        ELSE IF file_tag.text = None
        THEN [error |-> "", crash |-> "AttributeError", disk |-> fs]
        ELSE [error |-> "", crash |-> "",
              disk |-> WriteFile(fs, Join(file_tag.attrib["Location"]),
                                 Bytes(decode_base64(file_tag.text[1])),
                                 ParseOctal(PermissionOrDefault(file_tag)))]

\* The loop of extract_package_files over the children of the Filelist at
\* position top, from child i on. st: the list saved so far (references), the
\* entries written, the filesystem, and how the loop ended.
RECURSIVE ExtractLoop(_, _, _, _)
ExtractLoop(top, tags, i, st) ==
    IF i > Len(tags) THEN st
    ELSE LET r == extract_from_file_tag(tags[i], st.disk)
         IN  IF r.error # "" \/ r.crash # ""
             THEN [st EXCEPT !.error = r.error, !.crash = r.crash]
             ELSE ExtractLoop(top, tags, i + 1,
                              [st EXCEPT !.disk = r.disk,
                                         !.written = Append(@, i),
                                         !.saved = Append(@, [top |-> top, idx |-> i])])

ExtractStart(fs) ==
    [saved |-> <<>>, written |-> <<>>, disk |-> fs, error |-> "", crash |-> ""]

extract_package_files ==
    /\ outcome.op # "none"
    /\ IF loaded_package_root = None
       THEN \* None.find: AttributeError, re-raised at line 159
            /\ saved_package_files' = Some(<<>>)
            /\ written' = <<>>
            /\ outcome' = Outcome("extract", "", exception_mode, "AttributeError", FALSE)
            /\ UNCHANGED disk
       ELSE LET root == loaded_package_root[1]
                top == Find(root, "Filelist")
            IN  IF top = 0
                THEN \* iterating None: TypeError, re-raised at line 159
                     /\ saved_package_files' = Some(<<>>)
                     /\ written' = <<>>
                     /\ outcome' = Outcome("extract", "", exception_mode, "TypeError", FALSE)
                     /\ UNCHANGED disk
                ELSE LET st == ExtractLoop(top, root.kids[top].kids, 1, ExtractStart(disk))
                     IN  /\ saved_package_files' = Some(st.saved)
                         /\ written' = st.written
                         /\ disk' = st.disk
                         /\ outcome' = Outcome("extract", st.error, exception_mode, st.crash, FALSE)
    /\ UNCHANGED <<exception_mode, input_doc, loaded_package_root, package_xml_root>>
    /\ UNCHANGED program_vars

(***************************************************************************)
(* load_input.                                                             *)
(***************************************************************************)
\* One load per extractor, as Program.main does: a reload would leave
\* saved_package_files referring to the dicts of the tree it replaces.
load_input ==
    /\ loaded_package_root = None
    /\ IF input_doc = NoFile
       THEN \* FileNotFoundError: handle_exception(Exception("File ... not found!"))
            /\ outcome' = Outcome("load", "File 'in.opm' not found!", exception_mode, "", FALSE)
            /\ UNCHANGED loaded_package_root
       ELSE /\ loaded_package_root' = input_doc
            /\ outcome' = Outcome("load", "", exception_mode, "", FALSE)
    /\ UNCHANGED <<exception_mode, input_doc, saved_package_files, disk, written,
                   package_xml_root>>
    /\ UNCHANGED program_vars
(***************************************************************************)
(* extract_package_sopm.                                                   *)
(***************************************************************************)
\* [ tag.tag for tag in root.findall('./') ]
ChildTags(root) == [i \in 1..Len(root.kids) |-> root.kids[i].tag]

RECURSIVE KeepLast(_)
KeepLast(tags) ==
    IF tags = <<>> THEN <<>>
    ELSE IF Head(tags) \in Range(Tail(tags)) THEN KeepLast(Tail(tags))
    ELSE <<Head(tags)>> \o KeepLast(Tail(tags))

RECURSIVE FromKeys(_)
\* list(OrderedDict.fromkeys(tags)): each name once, at its first occurrence
FromKeys(tags) ==
    IF tags = <<>> THEN <<>>
    ELSE <<Head(tags)>> \o FromKeys(SelectSeq(Tail(tags), LAMBDA t : t # Head(tags)))

\* list.remove(x): the list without the first x; None when x is not in it
\* (ValueError)
ListRemove(list, x) ==
    LET hits == {i \in 1..Len(list) : list[i] = x}
    IN  IF hits = {} THEN None
        ELSE LET i == CHOOSE h \in hits : \A j \in hits : h <= j
             IN  Some(SubSeq(list, 1, i - 1) \o SubSeq(list, i + 1, Len(list)))

tags_to_exclude == <<"BuildCommitID", "BuildDate", "BuildHost">>

ExcludeTagUnguarded(tags_all, tag) == ListRemove(tags_all, tag)

\* if tag in tags_all: tags_all.remove(tag)
ExcludeTag(tags_all, tag) ==
    IF tag \in Range(tags_all) THEN ListRemove(tags_all, tag) ELSE Some(tags_all)

RECURSIVE ExcludeLoop(_, _)
ExcludeLoop(tags_all, i) ==
    IF i > Len(tags_to_exclude) \/ tags_all = None THEN tags_all
    ELSE ExcludeLoop(ExcludeTag(tags_all[1], tags_to_exclude[i]), i + 1)

\* _get_package_tag_names: the retained tag names; None when it raises
get_package_tag_names(root) == ExcludeLoop(Some(FromKeys(ChildTags(root))), 1)

RECURSIVE add_xml_tag(_)
\* _add_xml_tag: the copy of tag and of its subtree
add_xml_tag(tag) ==
    Element(tag.tag, tag.attrib, tag.text,
            [i \in 1..Len(tag.kids) |-> add_xml_tag(tag.kids[i])])

RECURSIVE CopyTags(_, _)
\* for tag_name in all_tags: for tag in root.iter(tag_name): _add_xml_tag(...)
CopyTags(root, all_tags) ==
    IF all_tags = <<>> THEN <<>>
    ELSE LET found == Iter(root, Head(all_tags))
         IN  [i \in 1..Len(found) |-> add_xml_tag(found[i])] \o CopyTags(root, Tail(all_tags))

\* The dict a saved reference points at
Deref(root, ref) == root.kids[ref.top].kids[ref.idx].attrib

\* The loop over saved_package_files (lines 265-268), from entry i on. st: the
\* source tree (del new_attrib['Encode'] changes the dict of the source's File
\* element), the File elements appended, and the exception raised.
RECURSIVE ReplaceLoop(_, _, _)
ReplaceLoop(saved, i, st) ==
    IF i > Len(saved) THEN st
    ELSE LET ref == saved[i]
             tag_attrib == Deref(st.root, ref)
         IN  IF "Encode" \notin DOMAIN tag_attrib
             THEN [st EXCEPT !.crash = "KeyError"]
             ELSE LET new_attrib == DelKey(tag_attrib, "Encode")
                  IN  ReplaceLoop(saved, i + 1,
                        [st EXCEPT !.root.kids[ref.top].kids[ref.idx].attrib = new_attrib,
                                   !.files = Append(@, Element("File", new_attrib, None, <<>>))])

ReplaceFilelistKeepCopies(copied, files) ==
    Element(copied.tag, copied.attrib, copied.text, copied.kids \o files)

\* tag_filelist.clear(), then the appended File elements
ReplaceFilelist(copied, files) == Element(copied.tag, NoAttrib, None, files)

\* _build_package_xml_root: the tree built (None when an exception ends the
\* build), the source tree after the build, and the exception raised.
build_package_xml_root(root, all_tags, saved) ==
    LET xml_root == Element("otrs_package", [a \in {"version"} |-> "1.1"], None,
                            CopyTags(root, all_tags))
        fl == Find(xml_root, "Filelist")
    IN  IF fl = 0
        THEN [xml |-> Some(xml_root), root |-> root, crash |-> ""]
        ELSE IF saved = None
        THEN \* iterating None: TypeError
             [xml |-> None, root |-> root, crash |-> "TypeError"]
        ELSE LET st == ReplaceLoop(saved[1], 1, [root |-> root, files |-> <<>>, crash |-> ""])
             IN  IF st.crash # ""
                 THEN [xml |-> None, root |-> st.root, crash |-> st.crash]
                 ELSE [xml |-> Some([xml_root EXCEPT !.kids[fl] = ReplaceFilelist(@, st.files)]),
                       root |-> st.root, crash |-> ""]

FindNameAnywhere(root) ==
    LET hits == IterKids(root.kids, "Name")
    IN  IF hits = <<>> THEN None ELSE Some(hits[1])

\* root.find('./Name')
FindName(root) ==
    IF Find(root, "Name") = 0 THEN None ELSE Some(root.kids[Find(root, "Name")])

RECURSIVE Str(_)
Str(chars) == IF chars = <<>> THEN "" ELSE Head(chars) \o Str(Tail(chars))

\* f"{tag_name.text}.sopm"
SopmName(tag_name) ==
    (IF tag_name.text = None THEN "None" ELSE Str(tag_name.text[1])) \o ".sopm"

extract_package_sopm ==
    /\ outcome.op # "none"
    /\ IF loaded_package_root = None
       THEN \* None.findall: AttributeError, re-raised at line 227
            /\ outcome' = Outcome("sopm", "", exception_mode, "AttributeError", FALSE)
            /\ package_xml_root' = None
            /\ UNCHANGED <<loaded_package_root, disk>>
       ELSE LET root == loaded_package_root[1]
                tags_all == get_package_tag_names(root)
            IN  IF tags_all = None
                THEN /\ outcome' = Outcome("sopm", "", exception_mode, "ValueError", FALSE)
                     /\ package_xml_root' = None
                     /\ UNCHANGED <<loaded_package_root, disk>>
                ELSE LET built == build_package_xml_root(root, tags_all[1], saved_package_files)
                         tag_name == FindName(built.root)
                     IN  /\ loaded_package_root' = Some(built.root)
                         /\ package_xml_root' = built.xml
                         /\ IF built.crash # ""
                            THEN /\ outcome' = Outcome("sopm", "", exception_mode, built.crash, FALSE)
                                 /\ UNCHANGED disk
                            ELSE IF tag_name = None
                            THEN /\ outcome' = Outcome("sopm", "Tag 'Name' is supposed to exist!",
                                                       exception_mode, "", FALSE)
                                 /\ UNCHANGED disk
                            ELSE /\ disk' = WriteFile(disk, Join(SopmName(tag_name[1])),
                                                      Xml(built.xml[1]), 420)
                                 /\ outcome' = Outcome("sopm", "", exception_mode, "", TRUE)
    /\ UNCHANGED <<exception_mode, input_doc, saved_package_files, written>>
    /\ UNCHANGED program_vars

(***************************************************************************)
(* Program.handleArguments.  arguments[1] is the program name, so Python's *)
(* arguments[1] is arguments[2] here.  prog.pc is "start" before the call, *)
(* "returned" when handleArguments returns to main (which then runs the    *)
(* load/extract/reduce pipeline), "exit" after exit(status), and "raised"  *)
(* when an exception leaves it.                                            *)
(***************************************************************************)
Words == {"-h", "--help", "-v", "--version", "-q", "--quiet", "pkg.opm"}

CommandLines == {<<"prog">> \o w : w \in SeqsUpTo(Words, MaxArgs)}

Program(pc) ==
    [pc |-> pc, stdout |-> "", status |-> 0, raised |-> "",
     input_file |-> "", output_path |-> "", is_quiet |-> FALSE]

\* The keys of the handle_arguments dict
HandlerCounts == {3, 4}

handleArguments ==
    /\ prog.pc = "start"
    /\ LET arguments_count == Len(arguments)
       IN  prog' =
             IF arguments_count >= 2 /\ arguments[2] \in {"-h", "--help"}
             THEN [prog EXCEPT !.pc = "exit", !.stdout = "usage", !.status = 0]
             ELSE IF arguments_count >= 2 /\ arguments[2] \in {"-v", "--version"}
             THEN [prog EXCEPT !.pc = "exit", !.stdout = "version", !.status = 0]
             ELSE IF arguments_count \notin HandlerCounts
             THEN \* handle_arguments[arguments_count]: KeyError
                  [prog EXCEPT !.pc = "raised", !.raised = "KeyError"]
             ELSE IF arguments_count = 3
             THEN [prog EXCEPT !.pc = "returned",
                               !.input_file = arguments[2],
                               !.output_path = arguments[3]]
             ELSE IF arguments[2] \in {"-q", "--quiet"}
             THEN [prog EXCEPT !.pc = "returned",
                               !.input_file = arguments[3],
                               !.output_path = arguments[4],
                               !.is_quiet = TRUE]
             ELSE [prog EXCEPT !.pc = "returned"]
    /\ UNCHANGED arguments
    /\ UNCHANGED engine_vars

ProgramIdle ==
    /\ arguments = <<"prog">>
    /\ prog = Program("idle")

(***************************************************************************)
(* The engine's specification: an extractor constructed over a document    *)
(* and an exception policy, and then any sequence of calls of its public   *)
(* interface, load_input first.                                            *)
(***************************************************************************)
EngineInit ==
    /\ \E c \in Constructions :
          /\ exception_mode = c[1]
          /\ input_doc = c[2]
    /\ loaded_package_root = None
    /\ saved_package_files = None
    /\ disk = {}
    /\ written = <<>>
    /\ package_xml_root = None
    /\ outcome = NoOutcome

Init == EngineInit /\ ProgramIdle

Next == load_input \/ extract_package_files \/ extract_package_sopm

Spec == Init /\ [][Next]_vars

(***************************************************************************)
(* The wrapper's specification: a Program constructed over a command line, *)
(* and its handleArguments.                                                *)
(***************************************************************************)
EngineIdle ==
    /\ exception_mode = "PRINT_STDERR"
    /\ input_doc = NoFile
    /\ loaded_package_root = None
    /\ saved_package_files = None
    /\ disk = {}
    /\ written = <<>>
    /\ package_xml_root = None
    /\ outcome = NoOutcome

InitArgs ==
    /\ arguments \in CommandLines
    /\ prog = Program("start")
    /\ EngineIdle

NextArgs == handleArguments

SpecArgs == InitArgs /\ [][NextArgs]_vars
(***************************************************************************)
(* Vocabulary of the properties.                                           *)
(***************************************************************************)
Loaded == loaded_package_root # None

\* The File entries the extraction pass walks: the children of the loaded
\* root's first direct Filelist child (none when there is no such child).
PassEntries ==
    IF Loaded /\ Find(loaded_package_root[1], "Filelist") # 0
    THEN loaded_package_root[1].kids[Find(loaded_package_root[1], "Filelist")].kids
    ELSE <<>>

\* The same entries as the input document holds them.
SourceEntries ==
    IF input_doc # NoFile /\ Find(input_doc[1], "Filelist") # 0
    THEN input_doc[1].kids[Find(input_doc[1], "Filelist")].kids
    ELSE <<>>

\* An entry the spec's input shape describes: a File with Location, Permission,
\* Encode="Base64" and a payload.
WellFormedEntry(e) ==
    /\ e.tag = "File"
    /\ {"Location", "Permission", "Encode"} \subseteq DOMAIN e.attrib
    /\ e.attrib["Encode"] = "Base64"
    /\ e.text # None

OnDisk(path) == \E f \in disk : f.path = path

\* The error was handed to handle_exception and treated as the policy says.
Routed ==
    /\ outcome.error # ""
    /\ outcome.printed = (exception_mode \in {"PRINT_STDERR", "PRINT_AND_RAISE"})
    /\ outcome.raised = IF exception_mode \in {"RAISE", "PRINT_AND_RAISE"}
                        THEN "OPMExtractorError" ELSE ""

BuildTags == {"BuildCommitID", "BuildDate", "BuildHost"}

\* The reduced manifest's top-level children and their tag names.
ReducedKids == IF package_xml_root = None THEN <<>> ELSE package_xml_root[1].kids

ReducedTags == [i \in 1..Len(ReducedKids) |-> ReducedKids[i].tag]

\* The reduced manifest's Filelist child: the first top-level child so tagged.
ReducedFilelist == ReducedKids[Find(package_xml_root[1], "Filelist")]

HasReducedFilelist ==
    package_xml_root # None /\ Find(package_xml_root[1], "Filelist") # 0

RECURSIVE Collapse(_)
\* A sequence with adjacent repeats collapsed.
Collapse(seq) ==
    IF Len(seq) <= 1 THEN seq
    ELSE IF seq[1] = seq[2] THEN Collapse(Tail(seq))
    ELSE <<seq[1]>> \o Collapse(Tail(seq))

\* The position of the first x in seq.
FirstIndex(seq, x) == CHOOSE i \in 1..Len(seq) : seq[i] = x /\ \A j \in 1..(i - 1) : seq[j] # x

RECURSIVE PreOrder(_)
RECURSIVE PreOrderAll(_)
\* The nodes of a tree in document order.
PreOrder(node) == <<node>> \o PreOrderAll(node.kids)

PreOrderAll(nodes) ==
    IF nodes = <<>> THEN <<>> ELSE PreOrder(Head(nodes)) \o PreOrderAll(Tail(nodes))

Tagged(nodes, t) == SelectSeq(nodes, LAMBDA n : n.tag = t)

(***************************************************************************)
(* The claims.                                                             *)
(***************************************************************************)

\* C1: when the k-th child of the Filelist is a File entry whose Encode is not
\* "Base64" (absent included), the extraction pass ends abnormally under every
\* exception policy, writes nothing for entry k or a later one, and what it
\* wrote is on disk; when the entries before k are well formed, it wrote
\* exactly the files of entries 1..k-1 and the error went through the
\* exception policy.
C1_UnsupportedEncodingAborts ==
    (outcome.op = "extract" /\ Loaded) =>
        \A k \in 1..Len(PassEntries) :
            ( /\ PassEntries[k].tag = "File"
              /\ Get(PassEntries[k].attrib, "Encode") # Some("Base64") )
            => /\ outcome.error # "" \/ outcome.raised # ""
               /\ \A j \in k..Len(PassEntries) : j \notin Range(written)
               /\ \A j \in Range(written) : OnDisk(Join(PassEntries[j].attrib["Location"]))
               /\ (\A j \in 1..(k - 1) : WellFormedEntry(PassEntries[j]))
                  => /\ written = [j \in 1..(k - 1) |-> j]
                     /\ Len(saved_package_files[1]) = k - 1
                     /\ Routed

C1_Witness ==
    /\ outcome.op = "extract"
    /\ Loaded
    /\ Len(PassEntries) = 2
    /\ WellFormedEntry(PassEntries[1])
    /\ PassEntries[2].tag = "File"
    /\ Get(PassEntries[2].attrib, "Encode") = Some("Gzip")
    /\ written = <<1>>
    /\ exception_mode = "PRINT_AND_RAISE"
    /\ outcome.raised = "OPMExtractorError"

\* C2: when the loaded root has no direct Name child, an extract_package_sopm
\* call that follows an extract_package_files call fails with "Tag 'Name' is
\* supposed to exist!", routed through the exception policy; it writes no
\* .sopm file and emits no "Saved file" message.
C2_MissingNameFailsClosed ==
    [][ ( /\ outcome.op = "extract"
          /\ outcome'.op = "sopm"
          /\ Loaded
          /\ Find(loaded_package_root[1], "Name") = 0 )
        => ( /\ outcome'.error = "Tag 'Name' is supposed to exist!"
             /\ Routed'
             /\ ~outcome'.saved_msg
             /\ disk' = disk
             /\ \A f \in disk' : f.data.xml = None ) ]_vars

C2_Witness ==
    /\ outcome.op = "sopm"
    /\ Loaded
    /\ Find(loaded_package_root[1], "Name") = 0
    /\ IterKids(loaded_package_root[1].kids, "Name") # <<>>
    /\ outcome.error = "Tag 'Name' is supposed to exist!"
    /\ written # <<>>
    /\ package_xml_root # None

\* C3 as stated: the reduced manifest's Filelist child has one File child per
\* entry the last extraction pass wrote, in that order, each carrying exactly
\* the Location and Permission of its entry and nothing else.
C3_OnlyLocationAndPermission ==
    (outcome.op = "sopm" /\ HasReducedFilelist) =>
        /\ Len(ReducedFilelist.kids) = Len(written)
        /\ \A i \in 1..Len(written) :
              LET f == ReducedFilelist.kids[i]
                  src == SourceEntries[written[i]]
              IN  /\ f.tag = "File"
                  /\ DOMAIN f.attrib = {"Location", "Permission"}
                  /\ f.attrib["Location"] = src.attrib["Location"]
                  /\ f.attrib["Permission"] = src.attrib["Permission"]
                  /\ f.text = None
                  /\ f.kids = <<>>

\* C3 (amended): the reduced manifest's Filelist child has one File child per
\* entry the last extraction pass wrote, in that order, each carrying every
\* attribute of its source entry except Encode (Location, Permission and any
\* other attribute), with no text and no children.
C3_FilelistReplaced ==
    (outcome.op = "sopm" /\ HasReducedFilelist) =>
        /\ Len(ReducedFilelist.kids) = Len(written)
        /\ \A i \in 1..Len(written) :
              LET f == ReducedFilelist.kids[i]
                  src == SourceEntries[written[i]]
              IN  /\ f.tag = "File"
                  /\ DOMAIN f.attrib = DOMAIN src.attrib \ {"Encode"}
                  /\ \A a \in DOMAIN f.attrib : f.attrib[a] = src.attrib[a]
                  /\ f.text = None
                  /\ f.kids = <<>>

C3_Witness ==
    /\ outcome.op = "sopm"
    /\ HasReducedFilelist
    /\ Len(SourceEntries) = 2
    /\ written = <<1>>
    /\ Len(ReducedFilelist.kids) = 1
    /\ "Type" \in DOMAIN ReducedFilelist.kids[1].attrib
    /\ "Encode" \notin DOMAIN ReducedFilelist.kids[1].attrib

\* C4: the top-level tag names of the reduced manifest, adjacent repeats
\* collapsed, are the root's direct-child tag names without the build tags,
\* each once, in the order of their first occurrence; and the copies under one
\* tag name are the document's nodes of that name, in document order.
C4_TagOrder ==
    (outcome.op = "sopm" /\ package_xml_root # None) =>
        LET source == input_doc[1]
            names == ChildTags(source)
            order == Collapse(ReducedTags)
        IN  /\ Range(order) = Range(names) \ BuildTags
            /\ \A i, j \in 1..Len(order) :
                  i < j => /\ order[i] # order[j]
                           /\ FirstIndex(names, order[i]) < FirstIndex(names, order[j])
            /\ \A t \in Range(order) :
                  /\ Len(Tagged(ReducedKids, t)) = Len(Tagged(PreOrder(source), t))
                  /\ t # "Filelist" => Tagged(ReducedKids, t) = Tagged(PreOrder(source), t)

C4_Witness ==
    /\ outcome.op = "sopm"
    /\ package_xml_root # None
    /\ ChildTags(input_doc[1]) = <<"Vendor", "License", "Vendor", "Name">>
    /\ Len(input_doc[1].kids[3].kids) = 1
    /\ ReducedTags = <<"Vendor", "Vendor", "License", "License", "Name">>

\* C5 as stated: a File entry with Location and Encode="Base64" and no
\* Permission attribute, after well-formed entries, is extracted: its file is
\* written with mode 0660, the entry is recorded, and it raises no error.
C5_PermissionDefaults ==
    (outcome.op = "extract" /\ Loaded) =>
        \A k \in 1..Len(PassEntries) :
            ( /\ PassEntries[k].tag = "File"
              /\ "Location" \in DOMAIN PassEntries[k].attrib
              /\ Get(PassEntries[k].attrib, "Encode") = Some("Base64")
              /\ "Permission" \notin DOMAIN PassEntries[k].attrib
              /\ PassEntries[k].text # None
              /\ \A j \in 1..(k - 1) : WellFormedEntry(PassEntries[j]) )
            => /\ k \in Range(written)
               /\ \E f \in disk : /\ f.path = Join(PassEntries[k].attrib["Location"])
                                  /\ f.mode = 432
               /\ Len(saved_package_files[1]) >= k
               /\ (k = Len(PassEntries) => outcome.error = "" /\ outcome.raised = "")

\* C6 as stated: when the loaded root has no direct Filelist child,
\* extract_package_files fails with a structural error routed through the
\* exception policy (printed and swallowed under print-only, so the call
\* returns normally) and writes no file.
C6_MissingFilelistRouted ==
    (outcome.op = "extract" /\ Loaded /\ Find(loaded_package_root[1], "Filelist") = 0) =>
        /\ Routed
        /\ (exception_mode = "PRINT_STDERR" => outcome.raised = "")
        /\ written = <<>>

\* C7 as stated: the loaded tree is read-only: after any calls, it is the tree
\* load_input built, every node with its tag, attributes, text and children.
C7_SourceTreeReadOnly ==
    Loaded => loaded_package_root = input_doc

\* C8: deriving the retained tag names never fails, whichever of the build
\* tags occur among the root's direct children and however often, and no
\* top-level child of the reduced manifest is a build tag.
C8_BuildTagsExcluded ==
    (outcome.op = "sopm" /\ Loaded) =>
        /\ outcome.raised # "ValueError"
        /\ get_package_tag_names(loaded_package_root[1]) # None
        /\ \A i \in 1..Len(ReducedTags) : ReducedTags[i] \notin BuildTags

C8_Witness ==
    /\ outcome.op = "sopm"
    /\ package_xml_root # None
    /\ BuildTags \subseteq Range(ChildTags(input_doc[1]))
    /\ Len(ChildTags(input_doc[1])) = 4
    /\ ReducedTags = <<>>

\* C9 as stated: a command line whose word count is neither 3 nor 4 and which
\* is no help or version call makes handleArguments print the usage and exit
\* with status 0: no exception leaves it and it does not return to the pipeline.
C9_OtherCountsPrintUsage ==
    ( /\ prog.pc \notin {"start", "idle"}
      /\ Len(arguments) \notin {3, 4}
      /\ ~(Len(arguments) >= 2 /\ arguments[2] \in {"-h", "--help", "-v", "--version"}) )
    => /\ prog.pc = "exit"
       /\ prog.stdout = "usage"
       /\ prog.status = 0
       /\ prog.raised = ""

\* C10 as stated: after a load and an extraction that wrote every entry of a
\* non-empty Filelist, and a successful extract_package_sopm, a second
\* extract_package_sopm succeeds and builds the same reduced manifest, and a
\* later extract_package_files writes the same entries again.
C10_ReductionRepeatable ==
    [][ ( /\ outcome.op = "sopm"
          /\ outcome.raised = ""
          /\ outcome.error = ""
          /\ written # <<>>
          /\ Len(written) = Len(SourceEntries) )
        => ( /\ outcome'.op = "sopm" =>
                  /\ outcome'.raised = ""
                  /\ outcome'.error = ""
                  /\ package_xml_root' = package_xml_root
             /\ outcome'.op = "extract" =>
                  /\ outcome'.raised = ""
                  /\ outcome'.error = ""
                  /\ written' = written ) ]_vars

====
